---- MODULE Spec2Model ----
(***************************************************************************)
(* Building-integrated agriculture plugin: the daily-light-integral        *)
(* pipeline of bia/bia_dli.py (filter_low_potential, calc_Whperm2_molperm2,*)
(* calc_sensor_floor_number, calc_sensor_wall_type, calc_DLI, main) and    *)
(* the crop ranking and crop calendar of bia/equation/bia_select.py.       *)
(*                                                                         *)
(* Tables (pandas DataFrames) are sequences of rows or of columns; a       *)
(* column of a table is a sequence aligned with the table's rows.          *)
(* Radiation is in whole Wh/m2, elevations in whole metres, and a light    *)
(* integral is kept in units of 1e-7 mol/m2 so that the conversion         *)
(* 0.45 * 4.57 * 3600 / 10^6 = 74034e-7 is exact.                          *)
(***************************************************************************)
EXTENDS Integers, Sequences, FiniteSets, TLC

VARIABLES
    \* ---- bia_dli.py: main and calc_DLI ----
    building,               \* position of main's dispatch in building_names (1-based)
    pc,                     \* position of calc_DLI for that building
    config,                 \* config.agriculture: crop_on_roof, crop_on_wall, threshold
    sensors_rad,            \* the radiation table read by filter_low_potential
    sensors_metadata,       \* the metadata table read by filter_low_potential
    sensors_metadata_clean, \* filtered metadata rows (with total_rad_Whm2)
    sensors_rad_clean,      \* columns of the filtered radiation table, in order
    max_annual_radiation,
    annual_radiation_threshold_Whperm2,
    sensors_DLI_daily,      \* one row of daily values per filtered sensor
    n_floor,                \* column n_floor of sensors_metadata_clean
    wall_type,              \* column wall_type of sensors_metadata_clean
    dir_exists,             \* the directory outputs/data/potentials/agriculture
    written,                \* buildings whose <building>_DLI_daily.csv exists
    log,                    \* what calc_DLI printed, per building
    floors_ag,              \* the building's floors_ag, from calc_building_height_info
    raised,                 \* the exception that ended the run ("" while there is none)
    \* ---- bia_select.py: calc_bia_crop_profile, calc_crop_calendar, calc_crop_rank ----
    sel_pc,                 \* position of calc_bia_crop_profile ("idle": not called)
    types_crop,             \* config.crop_profile.types_crop
    bia_metric_obj,         \* config.crop_profile.bia_assessment_metric_objective
    bia_metrics,            \* per crop type, the rows of <building>_BIA_metrics_<type>.csv
    metrics_read,           \* crop types whose metrics table has been read
    bia_metric_obj_matrix,  \* per crop type, the objective value of each surface
    bia_metric_obj_matrix_df, \* the matrix transposed: per surface, a value per crop type
    crop_rank_i_srf,        \* per surface, the crop type indices (0-based) in rank order
    crop_rank_type_srf,     \* per surface, the crop type names in rank order
    bia_calendar_srf_df,    \* the calendar returned by calc_crop_calendar
    profile_written,        \* <building>_BIA_crop_profile.csv exists
    sel_log,                \* what calc_crop_rank printed
    sel_raised,             \* the exception that ended calc_bia_crop_profile
    date_srf_all,           \* per crop type, per surface, the list of eligible days
    crop_profile_srf_ranked, \* per surface, the lists of eligible days, reordered
    calendar_to_merge,      \* the calendars appended by the stamping loop
    \* ---- bia_dli.py: main with several processes ----
    tasks                   \* per building, the calc_DLI call of a worker process

dliVars == <<building, pc, config, sensors_rad, sensors_metadata,
             sensors_metadata_clean, sensors_rad_clean, max_annual_radiation,
             annual_radiation_threshold_Whperm2, sensors_DLI_daily, n_floor,
             wall_type, dir_exists, written, log, floors_ag, raised>>

selVars == <<sel_pc, types_crop, bia_metric_obj, bia_metrics, metrics_read,
             bia_metric_obj_matrix, bia_metric_obj_matrix_df, crop_rank_i_srf,
             crop_rank_type_srf, bia_calendar_srf_df, profile_written, sel_log,
             sel_raised>>

calVars == <<date_srf_all, crop_profile_srf_ranked, calendar_to_merge>>

parVars == <<tasks>>

vars == <<dliVars, selVars, calVars, parVars>>

----------------------------------------------------------------------------
\* Bounds of the model.

\* buildings main dispatches
NumBuildings == 2
\* sensors of a building in the filter cases
MaxSensors == 3
\* hourly rows of a short radiation table
ShortRows == 2
\* above-ground floors of a building
MaxFloors == 2

\* Program constants.

\* pd.Series(range(0, 365))
DAYS_IN_YEAR == 365
\* day.repeat(24)
HOURS_PER_DAY == 24
\* wl_400_700nm = 0.45, in percent
wl_400_700nm_pct == 45
\* annual_radiation_threshold_BIA is in kWh/m2: * 1000 gives Wh/m2
WH_PER_KWH == 1000

HOURS_IN_YEAR == DAYS_IN_YEAR * HOURS_PER_DAY

----------------------------------------------------------------------------
\* Helpers on sequences.

Range(s) == {s[i] : i \in DOMAIN s}

Max(S) == CHOOSE x \in S : \A y \in S : y <= x
Min(S) == CHOOSE x \in S : \A y \in S : x <= y

\* sum of col[lo..hi] (DataFrame.sum over rows), by halving
RECURSIVE SumRows(_, _, _)
SumRows(col, lo, hi) ==
    IF lo > hi THEN 0
    ELSE IF lo = hi THEN col[lo]
    ELSE LET mid == (lo + hi) \div 2
         IN  SumRows(col, lo, mid) + SumRows(col, mid + 1, hi)

Reverse(s) == [i \in 1..Len(s) |-> s[Len(s) + 1 - i]]

----------------------------------------------------------------------------
\* filter_low_potential

\* sensors_rad_sum = sensors_rad.sum(0): the yearly radiation of each column
RadSum(rad) == [s \in Range(rad.columns) |-> SumRows(rad.data[s], 1, rad.rows)]

\* sensors_metadata.merge(sensors_rad_sum, left_index=True, right_index=True):
\* an inner join on SURFACE that keeps the order of the metadata rows
JoinTotalRad(rad_sum, meta) ==
    LET InRad(m) == m.SURFACE \in DOMAIN rad_sum
        kept == SelectSeq(meta, InRad)
    IN  [i \in 1..Len(kept) |->
            [SURFACE |-> kept[i].SURFACE, TYPE |-> kept[i].TYPE,
             orientation |-> kept[i].orientation, Zcoor |-> kept[i].Zcoor,
             total_rad_Whm2 |-> rad_sum[kept[i].SURFACE]]]

\* if config.agriculture.crop_on_roof is False: drop TYPE == 'roofs';
\* if config.agriculture.crop_on_wall is False: drop TYPE == 'walls'
KeepByType(cfg, m) ==
    /\ (~cfg.crop_on_roof => m.TYPE # "roofs")
    /\ (~cfg.crop_on_wall => m.TYPE # "walls")

\* float(config.agriculture.annual_radiation_threshold_BIA) * 1000
ThresholdWh(cfg) == cfg.annual_radiation_threshold_BIA * WH_PER_KWH

AboveThresholdStrict(total, threshold) == total > threshold
\* sensors_metadata.total_rad_Whm2 >= annual_radiation_threshold_Whperm2
AboveThreshold(total, threshold) == total >= threshold

\* lines 317-327: the rows kept by the two flags and by the threshold
MetadataClean(rad_sum, meta, cfg) ==
    LET Keep(m) == KeepByType(cfg, m)
                   /\ AboveThreshold(m.total_rad_Whm2, ThresholdWh(cfg))
    IN  SelectSeq(JoinTotalRad(rad_sum, meta), Keep)

RadCleanColumnsInTableOrder(rad, clean) ==
    LET Kept(c) == \E i \in 1..Len(clean) : clean[i].SURFACE = c
    IN  SelectSeq(rad.columns, Kept)
\* sensors_rad[sensors_metadata_clean.index.tolist()]: the columns named by
\* the filtered metadata, in the metadata's order
RadCleanColumns(rad, clean) == [i \in 1..Len(clean) |-> clean[i].SURFACE]

\* sensors_rad_sum.max().values[0]
MaxAnnualRadiation(rad_sum) == Max({rad_sum[s] : s \in DOMAIN rad_sum})

----------------------------------------------------------------------------
\* calc_Whperm2_molperm2

\* 4.57 * 3600, times 100
conversion_x100 == 457 * 3600

\* radiation_Whperm2 * wl_400_700nm * conversion / 10**6, in 1e-7 mol/m2
MolPerWh == (wl_400_700nm_pct * conversion_x100) \div 1000
DliHourlyAllWavelengths(v) == v * ((100 * conversion_x100) \div 1000)
DliHourly(v) == v * MolPerWh

HourToDayShifted(h) ==
    IF h + 1 < DAYS_IN_YEAR * HOURS_PER_DAY THEN (h + 1) \div HOURS_PER_DAY ELSE -1
\* hour_to_day = day.repeat(24).reset_index().pop('index'): the label of the
\* row with index h (0-based); the left merge leaves the rows past the end of
\* hour_to_day without a label (NaN, here -1)
HourToDay(h) ==
    IF h < DAYS_IN_YEAR * HOURS_PER_DAY THEN h \div HOURS_PER_DAY ELSE -1

\* dli_output_mol_h.groupby(['index']) on the rows lo..hi (0-based): the
\* groups in the order of their labels, each with its first and last row.
\* hour_to_day is sorted, so a group is a run of rows: a range whose ends
\* carry the same label is one group, and the groups of two adjacent ranges
\* are joined where the label continues.  Rows without a label are dropped.
RECURSIVE Groups(_, _)
Groups(lo, hi) ==
    IF lo > hi THEN <<>>
    ELSE IF HourToDay(lo) = HourToDay(hi)
    THEN IF HourToDay(lo) = -1 THEN <<>>
         ELSE <<[label |-> HourToDay(lo), first |-> lo, last |-> hi]>>
    ELSE LET mid == (lo + hi) \div 2
             L == Groups(lo, mid)
             R == Groups(mid + 1, hi)
         IN  IF L # <<>> /\ R # <<>> /\ L[Len(L)].label = R[1].label
             THEN SubSeq(L, 1, Len(L) - 1)
                  \o <<[label |-> R[1].label, first |-> L[Len(L)].first,
                        last |-> R[1].last]>>
                  \o Tail(R)
             ELSE L \o R

\* .sum() of one column over the groups, then reset_index and del 'index':
\* one daily value per group
DailySums(col, groups) ==
    [k \in 1..Len(groups) |->
        SumRows([r \in (groups[k].first + 1)..(groups[k].last + 1) |-> DliHourly(col[r])],
                groups[k].first + 1, groups[k].last + 1)]

\* calc_Whperm2_molperm2(sensors_rad_clean).T: one row per column of the
\* filtered radiation table, in the order of its columns
WhToMol(rad, cols) ==
    LET groups == Groups(0, rad.rows - 1)
    IN  [k \in 1..Len(cols) |-> DailySums(rad.data[cols[k]], groups)]

----------------------------------------------------------------------------
\* calc_sensor_floor_number

\* pd.cut(Zcoor, bins=n_floors, labels=False) for one elevation z of a column
\* whose smallest and largest values are mn and mx.  pandas builds the
\* n_floors + 1 edges np.linspace(mn, mx, n_floors + 1), lowers the first one
\* by 0.1% of the range, and returns (number of edges below z) - 1, so that
\* the bins are right-closed.  With mn = mx the edges span mn -/+ 0.1% and z
\* sits in the middle; with an even number of bins it sits on an edge that
\* floating point puts on either side of it: tie \in {0, 1}.
CutBin(z, mn, mx, n_floors, tie) ==
    IF mn # mx
    THEN Cardinality({i \in 1..n_floors : i * (mx - mn) < (z - mn) * n_floors})
    ELSE Cardinality({i \in 1..n_floors : 2 * i < n_floors})
         + (IF n_floors % 2 = 0 THEN tie ELSE 0)

\* facades = sensors_metadata_clean[orientation != 'top']: their row numbers
Facades(clean) == {i \in 1..Len(clean) : clean[i].orientation # "top"}

\* pd.cut raises ValueError("Cannot cut empty array") on an empty column
FloorNumberRaises(clean) == Facades(clean) = {}

\* sensors_metadata_clean['n_floor'].fillna(0): the label of the top sensors
RoofLabel(n_floors) == 0

\* the column n_floor: pd.cut(...) + 1 for a facade sensor, left-merged on
\* the index into the metadata, the sensors without a label filled with 0
FloorNumber(clean, n_floors, tie) ==
    LET zs == {clean[i].Zcoor : i \in Facades(clean)}
    IN  [i \in 1..Len(clean) |->
            IF i \in Facades(clean)
            THEN CutBin(clean[i].Zcoor, Min(zs), Max(zs), n_floors, tie) + 1
            ELSE RoofLabel(n_floors)]

----------------------------------------------------------------------------
\* calc_sensor_wall_type

\* orientation = ['north', 'east', 'south', 'west']
ORIENTATION == <<"north", "east", "south", "west">>

\* surfaces[(surfaces['n_floor'] == j) & (surfaces['TYPE'] == type)] for the
\* surfaces of orientation o: their row numbers
OnFloor(clean, floors, o, j, type) ==
    {i \in 1..Len(clean) :
        clean[i].orientation = o /\ floors[i] = j /\ clean[i].TYPE = type}

\* n_floors = max(sensors_metadata_clean['n_floor'])
MaxFloorLabel(floors) == Max(Range(floors))

\* walls.loc[walls['Zcoor'] > median, 'wall_type'] = 'upper' creates the column
\* wall_type; on a frame without rows pandas refuses to ("cannot set a frame
\* with no defined index and a scalar"), so the call raises ValueError when
\* some orientation has no wall sensor on some floor 1..n_floors.  Without any
\* floor (n_floors = 0) pd.concat([]) raises ValueError.
WallTypeRaises(clean, floors) ==
    \/ MaxFloorLabel(floors) < 1
    \/ \E o \in Range(ORIENTATION), j \in 1..MaxFloorLabel(floors) :
            OnFloor(clean, floors, o, j, "walls") = {}

\* twice windows['Zcoor'].median() of the rows W (W not empty): the middle
\* value, or the sum of the two middle values
KthSmallest(clean, W, k) ==
    CHOOSE v \in {clean[i].Zcoor : i \in W} :
        /\ Cardinality({i \in W : clean[i].Zcoor < v}) < k
        /\ k <= Cardinality({i \in W : clean[i].Zcoor <= v})
TwiceMedian(clean, W) ==
    LET n == Cardinality(W)
    IN  IF n % 2 = 1
        THEN 2 * KthSmallest(clean, W, (n + 1) \div 2)
        ELSE KthSmallest(clean, W, n \div 2) + KthSmallest(clean, W, n \div 2 + 1)

\* the label of wall row i against the windows W of its floor and orientation;
\* the median of no window is NaN and both comparisons with it are False
WallLabel(clean, i, W) ==
    IF W = {} THEN "side"
    ELSE IF 2 * clean[i].Zcoor > TwiceMedian(clean, W) THEN "upper"
    ELSE IF 2 * clean[i].Zcoor < TwiceMedian(clean, W) THEN "lower"
    ELSE "side"

\* the column wall_type: the labelled walls of the four orientations and the
\* floors 1..n_floors, left-merged on the index into the metadata, every
\* other sensor filled with 'non_wall'
WallType(clean, floors) ==
    [i \in 1..Len(clean) |->
        IF /\ clean[i].TYPE = "walls"
           /\ clean[i].orientation \in Range(ORIENTATION)
           /\ floors[i] \in 1..MaxFloorLabel(floors)
        THEN WallLabel(clean, i,
                 OnFloor(clean, floors, clean[i].orientation, floors[i], "windows"))
        ELSE "non_wall"]

----------------------------------------------------------------------------
\* calc_DLI

HasPotentialAlways(clean) == TRUE
\* if not sensors_metadata_clean.empty
HasPotential(clean) == Len(clean) # 0

\* what filter_low_potential reads for one building: the radiation table
\* (pd.read_json) and the metadata table (pd.read_csv)

FacadeOrientation(i) == ORIENTATION[((i - 1) % 4) + 1]

MetaRow(i, type, o, z) == [SURFACE |-> i, TYPE |-> type, orientation |-> o, Zcoor |-> z]

\* a column of n hourly values whose sum is v + 500
ShortColumn(v, n) == [r \in 1..n |-> IF r = 1 THEN v ELSE IF r = n THEN 500 ELSE 0]

\* a short table whose columns are in the reverse order of the metadata
\* rows, every sensor of any type, its yearly radiation 999 or 1000 Wh/m2
\* (1000 for the first sensors, 999 for the others)
FilterCases ==
    {[rad  |-> [columns |-> Reverse([i \in 1..MaxSensors |-> i]),
                rows    |-> ShortRows,
                data    |-> [i \in 1..MaxSensors |-> ShortColumn(level[i], ShortRows)]],
      meta |-> [i \in 1..MaxSensors |->
                   MetaRow(i, type[i],
                           IF type[i] = "roofs" THEN "top" ELSE FacadeOrientation(i), 5)]] :
        type \in [1..MaxSensors -> {"roofs", "walls", "windows"}],
        level \in {l \in [1..MaxSensors -> {499, 500}] :
                      \A i \in 1..(MaxSensors - 1) : l[i] >= l[i + 1]}}

\* a building with a wall sensor on each of its four facades, a window sensor
\* on the north facade and a roof sensor
FourFacadeCases ==
    {[rad  |-> [columns |-> <<1, 2, 3, 4, 5, 6>>,
                rows    |-> ShortRows,
                data    |-> [i \in 1..6 |-> ShortColumn(500, ShortRows)]],
      meta |-> [i \in 1..6 |->
                   IF i <= 4 THEN MetaRow(i, "walls", FacadeOrientation(i), 5)
                   ELSE IF i = 5 THEN MetaRow(i, "windows", "north", zwin)
                   ELSE MetaRow(i, "roofs", "top", 9)]] :
        zwin \in {2, 5, 9}}

\* a year of hourly values: 100 Wh/m2 every hour for sensor 1; 200 Wh/m2 for
\* sensor 2 but for 300 Wh/m2 in one hour
YearRows == {HOURS_IN_YEAR, HOURS_IN_YEAR - 1}
SpikeRows == {HOURS_PER_DAY, HOURS_PER_DAY + 1}
YearCases ==
    {[rad  |-> [columns |-> <<2, 1>>,
                rows    |-> rows,
                data    |-> <<[r \in 1..rows |-> 100],
                              [r \in 1..rows |-> IF r = spike THEN 300 ELSE 200]>>],
      meta |-> <<MetaRow(1, "walls", "north", 5), MetaRow(2, "walls", "east", 5)>>] :
        rows \in YearRows, spike \in SpikeRows}

\* three wall sensors on the north facade at 2 m, 5 m and 9 m, alone or with
\* a window sensor on the same facade
FacadeCases ==
    {[rad  |-> [columns |-> [i \in 1..Len(meta) |-> i],
                rows    |-> ShortRows,
                data    |-> [i \in 1..Len(meta) |-> ShortColumn(500, ShortRows)]],
      meta |-> meta] :
        meta \in {<<MetaRow(1, "walls", "north", 2), MetaRow(2, "walls", "north", 5),
                    MetaRow(3, "walls", "north", 9)>>}
                 \cup {<<MetaRow(1, "walls", "north", 2), MetaRow(2, "walls", "north", 5),
                         MetaRow(3, "walls", "north", 9), MetaRow(4, "windows", "north", z)>> :
                            z \in {2, 5, 9}}}

Inputs == FilterCases \cup FourFacadeCases \cup FacadeCases \cup YearCases

\* sensors_rad.sum(0) of each of these tables
InputRadSum == [input \in Inputs |-> RadSum(input.rad)]

NoTable == [columns |-> <<>>, rows |-> 0, data |-> <<>>]

Configs ==
    [crop_on_roof : BOOLEAN, crop_on_wall : BOOLEAN,
     annual_radiation_threshold_BIA : {0, 1}]

\* calc_bia_crop_profile has not been called
SelectIdle ==
    /\ sel_pc = "idle"
    /\ types_crop = <<>>
    /\ bia_metric_obj = ""
    /\ bia_metrics = <<>>
    /\ metrics_read = {}
    /\ bia_metric_obj_matrix = <<>>
    /\ bia_metric_obj_matrix_df = <<>>
    /\ crop_rank_i_srf = <<>>
    /\ crop_rank_type_srf = <<>>
    /\ bia_calendar_srf_df = <<>>
    /\ profile_written = FALSE
    /\ sel_log = <<>>
    /\ sel_raised = ""
    /\ date_srf_all = <<>>
    /\ crop_profile_srf_ranked = <<>>
    /\ calendar_to_merge = <<>>

\* main of bia_dli.py has not been run
DliIdle ==
    /\ building = 1
    /\ pc = "idle"
    /\ config = [crop_on_roof |-> TRUE, crop_on_wall |-> TRUE,
                 annual_radiation_threshold_BIA |-> 0]
    /\ sensors_rad = NoTable
    /\ sensors_metadata = <<>>
    /\ sensors_metadata_clean = <<>>
    /\ sensors_rad_clean = <<>>
    /\ max_annual_radiation = 0
    /\ annual_radiation_threshold_Whperm2 = 0
    /\ sensors_DLI_daily = <<>>
    /\ n_floor = <<>>
    /\ wall_type = <<>>
    /\ dir_exists = FALSE
    /\ written = {}
    /\ log = <<>>
    /\ floors_ag = 0
    /\ raised = ""
    /\ tasks = <<>>

\* main: the scenario's directory holds no agriculture outputs yet
Init ==
    /\ SelectIdle
    /\ building = 1
    /\ pc = "start"
    /\ config \in Configs
    /\ sensors_rad = NoTable
    /\ sensors_metadata = <<>>
    /\ sensors_metadata_clean = <<>>
    /\ sensors_rad_clean = <<>>
    /\ max_annual_radiation = 0
    /\ annual_radiation_threshold_Whperm2 = 0
    /\ sensors_DLI_daily = <<>>
    /\ n_floor = <<>>
    /\ wall_type = <<>>
    /\ dir_exists = FALSE
    /\ written = {}
    /\ log = <<>>
    /\ floors_ag = 0
    /\ raised = ""
    /\ tasks = <<>>

\* calc_DLI, lines 70-76: filter_low_potential on the building's files
FilterLowPotential ==
    /\ pc = "start"
    /\ \E input \in Inputs :
         LET sensors_rad_sum == InputRadSum[input]
             clean == MetadataClean(sensors_rad_sum, input.meta, config)
         IN  /\ sensors_rad' = input.rad
             /\ sensors_metadata' = input.meta
             /\ sensors_metadata_clean' = clean
             /\ sensors_rad_clean' = RadCleanColumns(input.rad, clean)
             /\ max_annual_radiation' = MaxAnnualRadiation(sensors_rad_sum)
             /\ annual_radiation_threshold_Whperm2' = ThresholdWh(config)
    /\ pc' = "filtered"
    /\ UNCHANGED <<selVars, parVars, calVars, floors_ag, raised, building, config, sensors_DLI_daily, n_floor, wall_type,
                   dir_exists, written, log>>

\* calc_DLI, lines 104-106: the building has no sensor left
NoPotential ==
    /\ pc = "filtered"
    /\ ~HasPotential(sensors_metadata_clean)
    /\ log' = Append(log, "no BIA potential")
    /\ pc' = "returned"
    /\ UNCHANGED <<selVars, parVars, calVars, floors_ag, raised, building, config, sensors_rad, sensors_metadata,
                   sensors_metadata_clean, sensors_rad_clean, max_annual_radiation,
                   annual_radiation_threshold_Whperm2, sensors_DLI_daily, n_floor,
                   wall_type, dir_exists, written>>

\* calc_DLI, line 82: the daily light integrals of the filtered sensors
ConvertToDLI ==
    /\ pc = "filtered"
    /\ HasPotential(sensors_metadata_clean)
    /\ sensors_DLI_daily' = WhToMol(sensors_rad, sensors_rad_clean)
    /\ pc' = "converted"
    /\ UNCHANGED <<selVars, parVars, calVars, floors_ag, raised, building, config, sensors_rad, sensors_metadata,
                   sensors_metadata_clean, sensors_rad_clean, max_annual_radiation,
                   annual_radiation_threshold_Whperm2, n_floor, wall_type,
                   dir_exists, written, log>>

\* calc_sensor_wall_type, lines 233-234: calc_sensor_floor_number with the
\* building's number of floors from calc_building_height_info
CalcSensorFloorNumber ==
    /\ pc = "converted"
    /\ \E n \in 1..MaxFloors, tie \in {0, 1} :
         /\ floors_ag' = n
         /\ IF FloorNumberRaises(sensors_metadata_clean)
            THEN /\ raised' = "ValueError: Cannot cut empty array"
                 /\ pc' = "raised"
                 /\ UNCHANGED n_floor
            ELSE /\ n_floor' = FloorNumber(sensors_metadata_clean, n, tie)
                 /\ pc' = "floors"
                 /\ UNCHANGED raised
    /\ UNCHANGED <<selVars, parVars, calVars, building, config, sensors_rad, sensors_metadata,
                   sensors_metadata_clean, sensors_rad_clean, max_annual_radiation,
                   annual_radiation_threshold_Whperm2, sensors_DLI_daily, wall_type,
                   dir_exists, written, log>>

\* calc_sensor_wall_type, lines 236-275, and calc_DLI, line 87
CalcSensorWallType ==
    /\ pc = "floors"
    /\ IF WallTypeRaises(sensors_metadata_clean, n_floor)
       THEN /\ raised' = "ValueError: cannot set a frame with no defined index and a scalar"
            /\ pc' = "raised"
            /\ UNCHANGED wall_type
       ELSE /\ wall_type' = WallType(sensors_metadata_clean, n_floor)
            /\ pc' = "classified"
            /\ UNCHANGED raised
    /\ UNCHANGED <<selVars, parVars, calVars, floors_ag, building, config, sensors_rad, sensors_metadata,
                   sensors_metadata_clean, sensors_rad_clean, max_annual_radiation,
                   annual_radiation_threshold_Whperm2, sensors_DLI_daily, n_floor,
                   dir_exists, written, log>>

\* calc_DLI, lines 90-95: the merge of metadata and daily values, then
\* os.path.exists(dir)
CheckDir ==
    /\ pc = "classified"
    /\ pc' = IF dir_exists THEN "write" ELSE "mkdir"
    /\ UNCHANGED <<selVars, parVars, calVars, floors_ag, raised, building, config, sensors_rad, sensors_metadata,
                   sensors_metadata_clean, sensors_rad_clean, max_annual_radiation,
                   annual_radiation_threshold_Whperm2, sensors_DLI_daily, n_floor,
                   wall_type, dir_exists, written, log>>

\* calc_DLI, line 96: os.mkdir(dir) raises FileExistsError on a directory
\* that exists
MakeDir ==
    /\ pc = "mkdir"
    /\ IF dir_exists
       THEN raised' = "FileExistsError" /\ pc' = "raised" /\ UNCHANGED dir_exists
       ELSE dir_exists' = TRUE /\ pc' = "write" /\ UNCHANGED raised
    /\ UNCHANGED <<selVars, parVars, calVars, floors_ag, building, config, sensors_rad, sensors_metadata,
                   sensors_metadata_clean, sensors_rad_clean, max_annual_radiation,
                   annual_radiation_threshold_Whperm2, sensors_DLI_daily, n_floor,
                   wall_type, written, log>>

\* calc_DLI, lines 97-102: to_csv of the building's file
ToCsv ==
    /\ pc = "write"
    /\ written' = written \cup {building}
    /\ log' = Append(log, "done")
    /\ pc' = "returned"
    /\ UNCHANGED <<selVars, parVars, calVars, floors_ag, raised, building, config, sensors_rad, sensors_metadata,
                   sensors_metadata_clean, sensors_rad_clean, max_annual_radiation,
                   annual_radiation_threshold_Whperm2, sensors_DLI_daily, n_floor,
                   wall_type, dir_exists>>

\* main, line 345, with one process: calc_DLI for the next building once the
\* call for this one has returned (an exception ends the run)
NextBuilding ==
    /\ pc = "returned"
    /\ building < NumBuildings
    /\ building' = building + 1
    /\ pc' = "start"
    /\ sensors_rad' = NoTable
    /\ sensors_metadata' = <<>>
    /\ sensors_metadata_clean' = <<>>
    /\ sensors_rad_clean' = <<>>
    /\ max_annual_radiation' = 0
    /\ annual_radiation_threshold_Whperm2' = 0
    /\ sensors_DLI_daily' = <<>>
    /\ n_floor' = <<>>
    /\ wall_type' = <<>>
    /\ floors_ag' = 0
    /\ UNCHANGED <<selVars, parVars, calVars, config, dir_exists, written, log, raised>>

Next ==
    \/ FilterLowPotential
    \/ NoPotential
    \/ ConvertToDLI
    \/ CalcSensorFloorNumber
    \/ CalcSensorWallType
    \/ CheckDir
    \/ MakeDir
    \/ ToCsv
    \/ NextBuilding

Spec == Init /\ [][Next]_vars

----------------------------------------------------------------------------
\* Properties of the daily-light-integral pipeline, under Spec.

\* C1: once filter_low_potential has returned, the columns of the filtered
\* radiation table are columns of the radiation table that was read, and they
\* are the SURFACE identifiers of the rows of the filtered metadata: as many,
\* the same, in the same order.
C1_FilteredTablesAligned ==
    pc = "filtered" =>
        /\ Range(sensors_rad_clean) \subseteq Range(sensors_rad.columns)
        /\ Len(sensors_rad_clean) = Len(sensors_metadata_clean)
        /\ \A i \in 1..Len(sensors_rad_clean) :
                sensors_rad_clean[i] = sensors_metadata_clean[i].SURFACE

\* filter_low_potential has kept at least two sensors and dropped another, and
\* the kept columns are not in the order they have in the radiation table
C1_Witness ==
    /\ pc = "filtered"
    /\ Len(sensors_rad_clean) >= 2
    /\ Len(sensors_rad_clean) < Len(sensors_rad.columns)
    /\ sensors_rad_clean # RadCleanColumnsInTableOrder(sensors_rad, sensors_metadata_clean)

C3_NoPotentialSkips ==
    (pc # "start" /\ Len(sensors_metadata_clean) = 0) =>
        /\ pc \in {"filtered", "returned"}
        /\ sensors_DLI_daily = <<>>
        /\ n_floor = <<>>
        /\ wall_type = <<>>
        /\ building \notin written
        /\ (pc = "returned" => log[building] = "no BIA potential")

\* the first building had no potential and calc_DLI is at work on the second
C3_Witness ==
    /\ building = 2
    /\ pc = "filtered"
    /\ log = <<"no BIA potential">>
    /\ written = {}

\* C4: for a radiation table of 8760 rows (indexed 0..8759),
\* calc_Whperm2_molperm2 returns for each column of its input, in the order
\* of the columns, 365 daily values, and the value of day d (0..364) is the
\* sum of the 24 converted hourly values of the rows 24d..24d+23.
C4_DailyBuckets ==
    (pc = "converted" /\ sensors_rad.rows = 8760) =>
        /\ Len(sensors_DLI_daily) = Len(sensors_rad_clean)
        /\ \A k \in 1..Len(sensors_rad_clean) :
              /\ Len(sensors_DLI_daily[k]) = 365
              /\ \A d \in 0..364 :
                    sensors_DLI_daily[k][d + 1] =
                        SumRows([r \in (24 * d + 1)..(24 * d + 24) |->
                                    DliHourly(sensors_rad.data[sensors_rad_clean[k]][r])],
                                24 * d + 1, 24 * d + 24)

\* a table of 8760 rows and two columns has been converted; the hour of
\* 300 Wh/m2 is row 24, the first of day 1, and shows in day 1 alone
C4_Witness ==
    /\ pc = "converted"
    /\ sensors_rad.rows = 8760
    /\ sensors_rad_clean = <<1, 2>>
    /\ sensors_DLI_daily[2][2] > sensors_DLI_daily[2][1]
    /\ sensors_DLI_daily[2][1] = sensors_DLI_daily[2][3]
    /\ sensors_DLI_daily[1][1] = 24 * DliHourly(100)

\* C5: once calc_sensor_floor_number has been called for a building of
\* N >= 1 floors, every sensor has its floor label: 0 for a sensor of
\* orientation top, and for a facade sensor 1 plus the index of the one of N
\* equal-width bins over the facade elevations that holds its elevation, a
\* label in 1..N; a facade sensor above another never has a lower label.
C5_FloorLabels ==
    (pc \in {"floors", "classified", "mkdir", "write"} \/ raised # "") =>
        /\ floors_ag >= 1
        /\ Len(n_floor) = Len(sensors_metadata_clean)
        /\ \A i \in 1..Len(sensors_metadata_clean) :
              IF sensors_metadata_clean[i].orientation = "top"
              THEN n_floor[i] = 0
              ELSE n_floor[i] \in 1..floors_ag
        /\ LET F  == {i \in 1..Len(sensors_metadata_clean) :
                          sensors_metadata_clean[i].orientation # "top"}
               Z(i) == sensors_metadata_clean[i].Zcoor
           IN  /\ \A i, j \in F : Z(i) > Z(j) => n_floor[i] >= n_floor[j]
               /\ \A i \in F :
                     LET mn == Min({Z(j) : j \in F})
                         mx == Max({Z(j) : j \in F})
                     IN  mn # mx =>
                            /\ (n_floor[i] - 1) * (mx - mn) <= (Z(i) - mn) * floors_ag
                            /\ (Z(i) - mn) * floors_ag <= n_floor[i] * (mx - mn)

\* C6: once calc_sensor_wall_type has been called, every sensor has its wall
\* type: a wall sensor of one of the four orientations is upper if it is above
\* the median elevation of the window sensors of its floor and orientation,
\* lower if it is below it, and side otherwise (on the median, or no such
\* window sensor); a window sensor is non_wall.
C6_WallZones ==
    (pc \in {"classified", "mkdir", "write"} \/ raised # "") =>
        /\ Len(wall_type) = Len(sensors_metadata_clean)
        /\ \A i \in 1..Len(sensors_metadata_clean) :
              LET m == sensors_metadata_clean[i]
                  W == {k \in 1..Len(sensors_metadata_clean) :
                           /\ sensors_metadata_clean[k].TYPE = "windows"
                           /\ sensors_metadata_clean[k].orientation = m.orientation
                           /\ n_floor[k] = n_floor[i]}
              IN  /\ m.TYPE = "windows" => wall_type[i] = "non_wall"
                  /\ (m.TYPE = "walls" /\ m.orientation \in Range(ORIENTATION)) =>
                        wall_type[i] =
                            IF W = {} THEN "side"
                            ELSE IF 2 * m.Zcoor > TwiceMedian(sensors_metadata_clean, W)
                            THEN "upper"
                            ELSE IF 2 * m.Zcoor < TwiceMedian(sensors_metadata_clean, W)
                            THEN "lower"
                            ELSE "side"

----------------------------------------------------------------------------
\* bia_select.py: calc_bia_crop_profile calls calc_crop_calendar (line 67),
\* which calls calc_crop_rank (line 215).

\* Bounds of the crop ranking.
\* crop types in config.crop_profile.types_crop
MaxCrops == 3
\* rows (surfaces) of a building's metrics tables
MaxSurfaces == 2

\* the ten objectives that calc_crop_rank tests for, lines 120-159
OBJECTIVES ==
    {"CropYield", "GHGEmission", "EnergyUse", "WaterUse", "AnnualisedCAPEX",
     "AnnualisedCAPEXPerKgYield", "AnnualOPEX", "AnnualOPEXPerKgYield",
     "AnnualCost", "AnnualCostPerKgYield"}

\* An objective's value is the ratio num/den of two whole numbers, den > 0.
Val(n, d) == [num |-> n, den |-> d]
LessEq(a, b) == a.num * b.den <= b.num * a.den
Times(a, k) == Val(a.num * k, a.den)

\* lines 120-163: the_bia_metric of one row of a metrics table
TheBiaMetric(obj, row) ==
    CASE obj = "CropYield" -> Val(row.yield_kg_per_year, 1)
      [] obj = "GHGEmission" -> Val(row.ghg_kg_co2_bia, 1)
      [] obj = "EnergyUse" -> Val(row.energy_kWh_bia, 1)
      [] obj = "WaterUse" -> Val(row.water_l_bia, 1)
      [] obj = "AnnualisedCAPEX" -> Val(row.capex_all_annualised_USD, 1)
      [] obj = "AnnualisedCAPEXPerKgYield" ->
            Val(row.capex_all_annualised_USD, row.yield_kg_per_year)
      [] obj = "AnnualOPEX" -> Val(row.opex_all_USD_per_year, 1)
      [] obj = "AnnualOPEXPerKgYield" ->
            Val(row.opex_all_USD_per_year, row.yield_kg_per_year)
      [] obj = "AnnualCost" ->
            Val(row.capex_all_annualised_USD + row.opex_all_USD_per_year, 1)
      [] obj = "AnnualCostPerKgYield" ->
            Val(row.capex_all_annualised_USD + row.opex_all_USD_per_year,
                row.yield_kg_per_year)

\* lines 116-167: the inner loop over the rows of one metrics table; with an
\* objective that is none of the ten, its first pass prints and breaks
BiaMetricObjSrf(obj, bia_metrics_srf) ==
    IF obj \in OBJECTIVES
    THEN [surface \in 1..Len(bia_metrics_srf) |->
             TheBiaMetric(obj, bia_metrics_srf[surface])]
    ELSE <<>>

\* lines 172-174: pd.DataFrame(bia_metric_obj_matrix).T, one row per surface
\* and one column per crop type (the tables of a building have the same rows)
Transposed(matrix) ==
    LET n_rows == IF Len(matrix) = 0 THEN 0 ELSE Len(matrix[1])
    IN  [surface \in 1..n_rows |-> [c \in 1..Len(matrix) |-> matrix[c][surface]]]

\* the orders of the crop type indices 0..k-1
RankOrders(k) ==
    {r \in [1..k -> 0..(k - 1)] : \A i, j \in 1..k : i # j => r[i] # r[j]}

\* np.argsort of one row: an order along which the keys never decrease (the
\* default sort is not stable, so equal keys come in either order)
IsArgSort(keys, r) ==
    \A i \in 1..(Len(r) - 1) : LessEq(keys[r[i] + 1], keys[r[i + 1] + 1])

\* lines 178-181: descending for CropYield (values * -1), ascending otherwise
SortSign(obj) == IF obj = "CropYield" THEN -1 ELSE 1

SortKeys(obj, row) == [c \in 1..Len(row) |-> Times(row[c], SortSign(obj))]

\* Inputs: the configured crop types, and metrics tables whose rows differ in
\* every column, are equal in energy use, in OPEX per kg and in annual cost,
\* and have a positive yield.
CROPS == <<"lettuce", "tomato", "spinach", "basil">>

TypesCropCases == {SubSeq(CROPS, 1, k) : k \in 0..Min({MaxCrops, Len(CROPS)})}

MetricRows ==
    { [yield_kg_per_year |-> 2, ghg_kg_co2_bia |-> 2, energy_kWh_bia |-> 1,
       water_l_bia |-> 2, capex_all_annualised_USD |-> 2, opex_all_USD_per_year |-> 2],
      [yield_kg_per_year |-> 1, ghg_kg_co2_bia |-> 1, energy_kWh_bia |-> 1,
       water_l_bia |-> 3, capex_all_annualised_USD |-> 3, opex_all_USD_per_year |-> 1] }

ObjectiveCases == OBJECTIVES \cup {"Profit"}

\* calc_crop_rank, lines 101-106: on entering the loop over the crop types
InitSelect ==
    /\ DliIdle
    /\ sel_pc = "rank_loop"
    /\ types_crop \in TypesCropCases
    /\ bia_metric_obj \in ObjectiveCases
    /\ \E n_surface \in 0..MaxSurfaces :
          bia_metrics \in [1..Len(types_crop) -> [1..n_surface -> MetricRows]]
    /\ metrics_read = {}
    /\ bia_metric_obj_matrix = <<>>
    /\ bia_metric_obj_matrix_df = <<>>
    /\ crop_rank_i_srf = <<>>
    /\ crop_rank_type_srf = <<>>
    /\ bia_calendar_srf_df = <<>>
    /\ profile_written = FALSE
    /\ sel_log = <<>>
    /\ sel_raised = ""
    /\ date_srf_all = <<>>
    /\ crop_profile_srf_ranked = <<>>
    /\ calendar_to_merge = <<>>

\* calc_crop_rank, lines 107-169: one pass of the loop over the crop types
ReadMetrics ==
    /\ sel_pc = "rank_loop"
    /\ Len(bia_metric_obj_matrix) < Len(types_crop)
    /\ LET type_crop == Len(bia_metric_obj_matrix) + 1
           bia_metrics_srf == bia_metrics[type_crop]
       IN  /\ metrics_read' = metrics_read \cup {types_crop[type_crop]}
           /\ bia_metric_obj_matrix' =
                 Append(bia_metric_obj_matrix,
                        BiaMetricObjSrf(bia_metric_obj, bia_metrics_srf))
           /\ sel_log' =
                 IF bia_metric_obj \notin OBJECTIVES /\ Len(bia_metrics_srf) > 0
                 THEN Append(sel_log, "Error: user to define the objective BIA metric.")
                 ELSE sel_log
    /\ UNCHANGED <<dliVars, parVars, calVars, sel_pc, types_crop, bia_metric_obj, bia_metrics,
                   bia_metric_obj_matrix_df, crop_rank_i_srf, crop_rank_type_srf,
                   bia_calendar_srf_df, profile_written, sel_raised>>

\* calc_crop_rank, lines 172-174, once the loop has passed every crop type
StoreMatrix ==
    /\ sel_pc = "rank_loop"
    /\ Len(bia_metric_obj_matrix) = Len(types_crop)
    /\ bia_metric_obj_matrix_df' = Transposed(bia_metric_obj_matrix)
    /\ sel_pc' = "argsort"
    /\ UNCHANGED <<dliVars, parVars, calVars, types_crop, bia_metric_obj, bia_metrics, metrics_read,
                   bia_metric_obj_matrix, crop_rank_i_srf, crop_rank_type_srf,
                   bia_calendar_srf_df, profile_written, sel_log, sel_raised>>

\* calc_crop_rank, lines 178-181: np.argsort(...).tolist(), a list of lists
ArgSort ==
    /\ sel_pc = "argsort"
    /\ \E rank \in [1..Len(bia_metric_obj_matrix_df) -> RankOrders(Len(types_crop))] :
          /\ \A surface \in 1..Len(bia_metric_obj_matrix_df) :
                IsArgSort(SortKeys(bia_metric_obj, bia_metric_obj_matrix_df[surface]),
                          rank[surface])
          /\ crop_rank_i_srf' = rank
    /\ sel_pc' = "crop_matrix"
    /\ UNCHANGED <<dliVars, parVars, calVars, types_crop, bia_metric_obj, bia_metrics, metrics_read,
                   bia_metric_obj_matrix, bia_metric_obj_matrix_df, crop_rank_type_srf,
                   bia_calendar_srf_df, profile_written, sel_log, sel_raised>>

\* what lines 183-184 raise: crop_rank_i_srf is a list, which has no shape
\* (AttributeError); a pandas that refuses to index an Index by a list of
\* lists raises ValueError while evaluating the first argument
CropMatrixErrors(rank) ==
    IF rank = <<>>
    THEN {"AttributeError: 'list' object has no attribute 'shape'"}
    ELSE {"AttributeError: 'list' object has no attribute 'shape'",
          "ValueError: Multi-dimensional indexing is no longer supported"}

\* calc_crop_rank, lines 183-184: the exception leaves calc_crop_rank,
\* calc_crop_calendar (line 215) and calc_bia_crop_profile (line 67)
BuildCropMatrix ==
    /\ sel_pc = "crop_matrix"
    /\ sel_raised' \in CropMatrixErrors(crop_rank_i_srf)
    /\ sel_pc' = "raised"
    /\ UNCHANGED <<dliVars, parVars, calVars, types_crop, bia_metric_obj, bia_metrics, metrics_read,
                   bia_metric_obj_matrix, bia_metric_obj_matrix_df, crop_rank_i_srf,
                   crop_rank_type_srf, bia_calendar_srf_df, profile_written, sel_log>>

NextSelect ==
    \/ ReadMetrics
    \/ StoreMatrix
    \/ ArgSort
    \/ BuildCropMatrix

SpecSelect == InitSelect /\ [][NextSelect]_vars

----------------------------------------------------------------------------
\* Properties of the crop ranking, under SpecSelect.

\* calc_crop_rank is no longer running
RankEnded == sel_pc \notin {"idle", "rank_loop", "argsort", "crop_matrix"}

\* C7: when calc_crop_rank has ended for one of the ten objectives, it has
\* returned, for every surface, an order of the configured crop type indices
\* and the crop type names in that order; along the order the objective's
\* value never increases for CropYield and never decreases for the nine
\* other objectives.
C7_RankOrdered ==
    (RankEnded /\ bia_metric_obj \in OBJECTIVES) =>
        /\ sel_raised = ""
        /\ Len(crop_rank_i_srf) = Len(bia_metric_obj_matrix_df)
        /\ Len(crop_rank_type_srf) = Len(bia_metric_obj_matrix_df)
        /\ \A surface \in 1..Len(bia_metric_obj_matrix_df) :
              LET rank == crop_rank_i_srf[surface]
                  value(n) == bia_metric_obj_matrix_df[surface][rank[n] + 1]
              IN  /\ rank \in RankOrders(Len(types_crop))
                  /\ crop_rank_type_srf[surface] =
                        [n \in 1..Len(types_crop) |-> types_crop[rank[n] + 1]]
                  /\ \A n \in 1..(Len(types_crop) - 1) :
                        IF bia_metric_obj = "CropYield"
                        THEN LessEq(value(n + 1), value(n))
                        ELSE LessEq(value(n), value(n + 1))

\* C8: with an objective that is none of the ten, no metrics table is read,
\* no crop type is passed by the loop, no rank and no calendar is produced or
\* written, and the run ends with an error of configuration, not with the
\* exception of lines 183-184.
C8_UnknownObjectiveFatal ==
    (sel_pc # "idle" /\ bia_metric_obj \notin OBJECTIVES) =>
        /\ metrics_read = {}
        /\ bia_metric_obj_matrix = <<>>
        /\ crop_rank_i_srf = <<>>
        /\ crop_rank_type_srf = <<>>
        /\ bia_calendar_srf_df = <<>>
        /\ ~profile_written
        /\ RankEnded =>
              (sel_raised # "" /\ sel_raised \notin CropMatrixErrors(crop_rank_i_srf))

----------------------------------------------------------------------------
\* bia_select.py: calc_crop_calendar from line 217 on, as a function of the
\* rank that line 215 hands it and of the eligible days of the crop types.
\* A calendar is [position, day_columns, rows], position being the rank
\* position it is made for; a row is [srf, cells], and cells holds
\* [day, value] for the days that are not empty, value being the sequence of
\* the crop type names written there (several names: joined by commas).

\* columns of a calendar, line 248
CALENDAR_DAYS == 365

\* calc_crop_cycle's date_srf for crop type c (bia_crop_cycle.py): per
\* surface, the list of the days eligible for growing the crop type
DateSrf(c, n_surface, v) ==
    [surface \in 1..n_surface |->
        IF v = 0 THEN <<10 * c, 200 + 20 * (c - 1)>> ELSE <<c + surface>>]

DateSrfCases(k, n_surface) ==
    {[c \in 1..k |-> DateSrf(c, n_surface, v)] : v \in {0, 1}}

\* line 232: the lists of days of one surface, in the order of types_crop
CropProfileNotRanked(dates, surface) == [c \in 1..Len(dates) |-> dates[c][surface]]

\* line 240: sorted(zip(rank_index, crop_profile_not_ranked)) puts the pairs
\* in the order of their first components and keeps the second ones
CropProfileRanked(rank_index, not_ranked) ==
    [r \in 1..Len(rank_index) |->
        not_ranked[CHOOSE i \in 1..Len(rank_index) : rank_index[i] = r - 1]]

\* line 252: .iat takes integer positions only, and the column it is given
\* is a list of days
IatRaises(n_surface, n_crops_type) == n_surface >= 1 /\ n_crops_type >= 1

RECURSIVE Flatten(_)
Flatten(ss) == IF ss = <<>> THEN <<>> ELSE Head(ss) \o Flatten(Tail(ss))

\* line 257: pd.concat(calendar_to_merge, axis=0); line 258 changes nothing
ConcatRows(cals) ==
    [day_columns |-> CALENDAR_DAYS,
     rows |-> Flatten([i \in 1..Len(cals) |-> cals[i].rows])]

\* calc_crop_calendar, lines 217-218, with a rank for every surface
InitCalendar ==
    /\ DliIdle
    /\ sel_pc = "crop_cycle"
    /\ types_crop \in TypesCropCases
    /\ bia_metric_obj = "CropYield"
    /\ \E n_surface \in 0..MaxSurfaces :
          crop_rank_i_srf \in [1..n_surface -> RankOrders(Len(types_crop))]
    /\ bia_metrics = <<>>
    /\ metrics_read = {}
    /\ bia_metric_obj_matrix = <<>>
    /\ bia_metric_obj_matrix_df = <<>>
    /\ crop_rank_type_srf = <<>>
    /\ bia_calendar_srf_df = <<>>
    /\ profile_written = FALSE
    /\ sel_log = <<>>
    /\ sel_raised = ""
    /\ date_srf_all = <<>>
    /\ crop_profile_srf_ranked = <<>>
    /\ calendar_to_merge = <<>>

\* calc_crop_calendar, lines 221-227: the eligible days of every crop type
CropCycles ==
    /\ sel_pc = "crop_cycle"
    /\ date_srf_all' \in DateSrfCases(Len(types_crop), Len(crop_rank_i_srf))
    /\ sel_pc' = "reorder"
    /\ UNCHANGED <<dliVars, parVars, types_crop, bia_metric_obj, bia_metrics, metrics_read,
                   bia_metric_obj_matrix, bia_metric_obj_matrix_df, crop_rank_i_srf,
                   crop_rank_type_srf, bia_calendar_srf_df, profile_written, sel_log,
                   sel_raised, crop_profile_srf_ranked, calendar_to_merge>>

\* calc_crop_calendar, lines 230-241
Reorder ==
    /\ sel_pc = "reorder"
    /\ crop_profile_srf_ranked' =
          [surface \in 1..Len(crop_rank_i_srf) |->
              CropProfileRanked(crop_rank_i_srf[surface],
                                CropProfileNotRanked(date_srf_all, surface))]
    /\ sel_pc' = "stamp"
    /\ UNCHANGED <<dliVars, parVars, types_crop, bia_metric_obj, bia_metrics, metrics_read,
                   bia_metric_obj_matrix, bia_metric_obj_matrix_df, crop_rank_i_srf,
                   crop_rank_type_srf, bia_calendar_srf_df, profile_written, sel_log,
                   sel_raised, date_srf_all, calendar_to_merge>>

\* calc_crop_calendar, lines 244-253: the first stamp raises; without a
\* surface or a crop type the loops append nothing
StampCalendars ==
    /\ sel_pc = "stamp"
    /\ IF IatRaises(Len(crop_rank_i_srf), Len(types_crop))
       THEN /\ sel_raised' = "ValueError: iAt based indexing can only have integer indexers"
            /\ sel_pc' = "raised"
       ELSE /\ sel_pc' = "concat"
            /\ UNCHANGED sel_raised
    /\ UNCHANGED <<dliVars, parVars, types_crop, bia_metric_obj, bia_metrics, metrics_read,
                   bia_metric_obj_matrix, bia_metric_obj_matrix_df, crop_rank_i_srf,
                   crop_rank_type_srf, bia_calendar_srf_df, profile_written, sel_log,
                   date_srf_all, crop_profile_srf_ranked, calendar_to_merge>>

\* calc_crop_calendar, lines 257-260
ConcatCalendars ==
    /\ sel_pc = "concat"
    /\ IF calendar_to_merge = <<>>
       THEN /\ sel_raised' = "ValueError: No objects to concatenate"
            /\ sel_pc' = "raised"
            /\ UNCHANGED bia_calendar_srf_df
       ELSE /\ bia_calendar_srf_df' = ConcatRows(calendar_to_merge)
            /\ sel_pc' = "returned"
            /\ UNCHANGED sel_raised
    /\ UNCHANGED <<dliVars, parVars, types_crop, bia_metric_obj, bia_metrics, metrics_read,
                   bia_metric_obj_matrix, bia_metric_obj_matrix_df, crop_rank_i_srf,
                   crop_rank_type_srf, profile_written, sel_log,
                   date_srf_all, crop_profile_srf_ranked, calendar_to_merge>>

NextCalendar ==
    \/ CropCycles
    \/ Reorder
    \/ StampCalendars
    \/ ConcatCalendars

SpecCalendar == InitCalendar /\ [][NextCalendar]_vars

----------------------------------------------------------------------------
\* Properties of the crop calendar, under SpecCalendar.

\* calc_crop_calendar is no longer running
CalendarEnded == sel_pc \in {"raised", "returned"}

\* the position in types_crop of a crop type name
CropIndex(name) == CHOOSE c \in 1..Len(types_crop) : types_crop[c] = name

\* C9: when calc_crop_calendar has ended, for every surface and every rank
\* position n a calendar holds, in the row of the surface, the name of the
\* crop type ranked n-th on the surface on one of that crop type's eligible
\* days for the surface; and no calendar holds a crop type's name on a day
\* that is not eligible for that crop type on that surface.
C9_StampsEligible ==
    CalendarEnded =>
        /\ \A surface \in 1..Len(crop_rank_i_srf) : \A n \in 1..Len(types_crop) :
              LET c == crop_rank_i_srf[surface][n] + 1
              IN  \E i \in 1..Len(calendar_to_merge) :
                     \E cell \in calendar_to_merge[i].rows[surface].cells :
                        /\ cell.value = <<types_crop[c]>>
                        /\ cell.day \in Range(date_srf_all[c][surface])
        /\ \A i \in 1..Len(calendar_to_merge) :
              \A surface \in 1..Len(calendar_to_merge[i].rows) :
                 \A cell \in calendar_to_merge[i].rows[surface].cells :
                    \A k \in 1..Len(cell.value) :
                       cell.day \in Range(date_srf_all[CropIndex(cell.value[k])][surface])

\* C10: when calc_crop_calendar has ended, it has returned a calendar of 365
\* day columns with exactly one row per surface, whose cells that are not
\* empty hold one crop type name or several, each once, in the order of the
\* surface's rank.
C10_CalendarShape ==
    CalendarEnded =>
        /\ sel_raised = ""
        /\ bia_calendar_srf_df # <<>>
        /\ bia_calendar_srf_df.day_columns = CALENDAR_DAYS
        /\ Len(bia_calendar_srf_df.rows) = Len(crop_rank_i_srf)
        /\ \A surface \in 1..Len(crop_rank_i_srf) :
              \E r \in 1..Len(bia_calendar_srf_df.rows) :
                 LET row == bia_calendar_srf_df.rows[r]
                     rankOf(name) == CHOOSE n \in 1..Len(types_crop) :
                                        crop_rank_i_srf[surface][n] + 1 = CropIndex(name)
                 IN  /\ row.srf = surface - 1
                     /\ \A cell \in row.cells :
                           /\ cell.day \in 0..(CALENDAR_DAYS - 1)
                           /\ cell.value # <<>>
                           /\ Range(cell.value) \subseteq Range(types_crop)
                           /\ \A a, b \in 1..Len(cell.value) :
                                 a < b => rankOf(cell.value[a]) < rankOf(cell.value[b])

\* the cells of the calendar of rank position n in the row of a surface, in
\* any of the calendars appended for that position
StampedCells(surface, n) ==
    {calendar_to_merge[i].rows[surface].cells :
        i \in {j \in 1..Len(calendar_to_merge) : calendar_to_merge[j].position = n}}

\* C11: when calc_crop_calendar has ended, for every surface the calendar of
\* every rank position holds exactly one cell that is not empty, in the
\* column of one day of the year, with one crop type name; with two crop
\* types of eligible days [10, 200] and [20, 220] on a single surface ranked
\* [0, 1], day 10 holds the first crop type's name, day 20 the second's, and
\* every other day is empty.
C11_OneDayPerRank ==
    CalendarEnded =>
        /\ \A surface \in 1..Len(crop_rank_i_srf) : \A n \in 1..Len(types_crop) :
              /\ StampedCells(surface, n) # {}
              /\ \A cells \in StampedCells(surface, n) :
                    \E d \in 0..(CALENDAR_DAYS - 1), c \in 1..Len(types_crop) :
                       cells = {[day |-> d, value |-> <<types_crop[c]>>]}
        /\ ( /\ Len(types_crop) = 2
             /\ crop_rank_i_srf = <<(<<0, 1>>)>>
             /\ date_srf_all = <<(<<(<<10, 200>>)>>), (<<(<<20, 220>>)>>)>> ) =>
                /\ StampedCells(1, 1) = {{[day |-> 10, value |-> <<types_crop[1]>>]}}
                /\ StampedCells(1, 2) = {{[day |-> 20, value |-> <<types_crop[2]>>]}}

\* C15: once the reordering step of calc_crop_calendar has been done, for
\* every surface and every rank order of the crop types, position r of the
\* surface's reordered list holds the eligible days of the crop type ranked
\* r-th on that surface: reordered[r] = eligibleDays[rank[r]].
C15_ReorderByRank ==
    (sel_pc \in {"stamp", "concat", "raised", "returned"}
        /\ Len(crop_profile_srf_ranked) = Len(crop_rank_i_srf)) =>
        \A surface \in 1..Len(crop_rank_i_srf) : \A r \in 1..Len(types_crop) :
           crop_profile_srf_ranked[surface][r] =
               date_srf_all[crop_rank_i_srf[surface][r] + 1][surface]

----------------------------------------------------------------------------
\* Properties of the conversion to daily light integrals, under Spec.

\* calc_Whperm2_molperm2 has been called for the building at hand
ConversionCalled ==
    /\ pc \notin {"idle", "start", "filtered"}
    /\ HasPotential(sensors_metadata_clean)

\* C13: once calc_Whperm2_molperm2 has been called with a table of fewer than
\* 8760 rows, it has failed: the run has ended by an exception, and there is
\* no table of daily values (none of fewer than 365 values, none with a day
\* summed over fewer than 24 rows).
C13_ShortTableFails ==
    (ConversionCalled /\ sensors_rad.rows < 8760) =>
        /\ pc = "raised"
        /\ sensors_DLI_daily = <<>>

\* the rows of filtered sensor k are 8760 values of 100 Wh/m2
AllHundred(k) ==
    /\ sensors_rad.rows = 8760
    /\ \A r \in 1..8760 : sensors_rad.data[sensors_rad_clean[k]][r] = 100

\* C14 as stated: for a column of 8760 values of 100 Wh/m2, each of the 365
\* daily values is approximately 177.8 mol/m2 (from 177.75 to 177.85; a
\* daily value is in units of 1e-7 mol/m2).
C14_About1778 ==
    ConversionCalled =>
        \A k \in 1..Len(sensors_DLI_daily) :
           AllHundred(k) =>
              /\ Len(sensors_DLI_daily[k]) = 365
              /\ \A d \in 1..365 :
                    /\ sensors_DLI_daily[k][d] >= 1777500000
                    /\ sensors_DLI_daily[k][d] < 1778500000

\* C14: for a column of 8760 values of 100 Wh/m2, each of the 365 daily
\* values is 100 x 0.45 x 4.57 x 3600 / 1e6 x 24 = 17.76816 mol/m2,
\* approximately 17.8 mol/m2 (177681600 units of 1e-7 mol/m2).
C14_DailyValue ==
    ConversionCalled =>
        \A k \in 1..Len(sensors_DLI_daily) :
           AllHundred(k) =>
              /\ Len(sensors_DLI_daily[k]) = 365
              /\ \A d \in 1..365 : sensors_DLI_daily[k][d] = 177681600

\* a column of 8760 values of 100 Wh/m2 has been converted
C14_Witness ==
    /\ pc = "converted"
    /\ \E k \in 1..Len(sensors_DLI_daily) :
          /\ AllHundred(k)
          /\ sensors_DLI_daily[k][365] = 177681600

----------------------------------------------------------------------------
\* bia_dli.py: main, lines 342-345, with several processes.  vectorize hands
\* the calc_DLI calls of the buildings to worker processes, which run side by
\* side and share the scenario's directory: dir_exists and written.  A step
\* of a task is a part of calc_DLI between two calls of the file system.

\* the buildings' files: a building with sensors on its four facades, a
\* building with roof sensors only, a building with a single facade
ParallelCases ==
    FourFacadeCases
      \cup {c \in FilterCases :
               \A i \in 1..Len(c.meta) :
                  c.meta[i].TYPE = "roofs" /\ c.rad.data[i] = c.rad.data[1]}
      \cup FacadeCases

ParallelConfigs ==
    [crop_on_roof : {TRUE}, crop_on_wall : {TRUE},
     annual_radiation_threshold_BIA : {0, 1}]

\* a call of calc_DLI that has not started
NewTask ==
    [pc |-> "start", sensors_rad |-> NoTable, sensors_metadata_clean |-> <<>>,
     sensors_rad_clean |-> <<>>, sensors_DLI_daily |-> <<>>, floors_ag |-> 0,
     n_floor |-> <<>>, wall_type |-> <<>>, raised |-> "", log |-> <<>>]

InitParallel ==
    /\ SelectIdle
    /\ building = 1
    /\ pc = "idle"
    /\ config \in ParallelConfigs
    /\ sensors_rad = NoTable
    /\ sensors_metadata = <<>>
    /\ sensors_metadata_clean = <<>>
    /\ sensors_rad_clean = <<>>
    /\ max_annual_radiation = 0
    /\ annual_radiation_threshold_Whperm2 = 0
    /\ sensors_DLI_daily = <<>>
    /\ n_floor = <<>>
    /\ wall_type = <<>>
    /\ dir_exists = FALSE
    /\ written = {}
    /\ log = <<>>
    /\ floors_ag = 0
    /\ raised = ""
    /\ tasks = [b \in 1..NumBuildings |-> NewTask]

\* what a step of a task leaves alone
TaskFrame ==
    UNCHANGED <<selVars, calVars, building, pc, config, sensors_rad, sensors_metadata,
                sensors_metadata_clean, sensors_rad_clean, max_annual_radiation,
                annual_radiation_threshold_Whperm2, sensors_DLI_daily, n_floor,
                wall_type, log, floors_ag, raised>>

\* calc_DLI, lines 68-106, up to os.path.exists: filter_low_potential, and
\* with a sensor left the conversion, the floor numbers and the wall types
TaskCompute(b) ==
    /\ tasks[b].pc = "start"
    /\ \E input \in ParallelCases, n \in 1..MaxFloors, tie \in {0, 1} :
         LET clean == MetadataClean(RadSum(input.rad), input.meta, config)
             cols == RadCleanColumns(input.rad, clean)
             filtered == [tasks[b] EXCEPT !.sensors_rad = input.rad,
                                          !.sensors_metadata_clean = clean,
                                          !.sensors_rad_clean = cols]
             converted == [filtered EXCEPT !.sensors_DLI_daily = WhToMol(input.rad, cols),
                                           !.floors_ag = n]
         IN  tasks' = [tasks EXCEPT ![b] =
                 IF ~HasPotential(clean)
                 THEN [filtered EXCEPT !.pc = "returned", !.log = <<"no BIA potential">>]
                 ELSE IF FloorNumberRaises(clean)
                 THEN [converted EXCEPT !.pc = "raised",
                                        !.raised = "ValueError: Cannot cut empty array"]
                 ELSE IF WallTypeRaises(clean, FloorNumber(clean, n, tie))
                 THEN [converted EXCEPT
                          !.pc = "raised",
                          !.n_floor = FloorNumber(clean, n, tie),
                          !.raised = "ValueError: cannot set a frame with no defined index and a scalar"]
                 ELSE [converted EXCEPT
                          !.pc = "classified",
                          !.n_floor = FloorNumber(clean, n, tie),
                          !.wall_type = WallType(clean, FloorNumber(clean, n, tie))]]
    /\ UNCHANGED <<dir_exists, written>>
    /\ TaskFrame

\* calc_DLI, line 95: os.path.exists(dir)
TaskCheckDir(b) ==
    /\ tasks[b].pc = "classified"
    /\ tasks' = [tasks EXCEPT ![b].pc = IF dir_exists THEN "write" ELSE "mkdir"]
    /\ UNCHANGED <<dir_exists, written>>
    /\ TaskFrame

\* calc_DLI, line 96: os.mkdir(dir)
TaskMakeDir(b) ==
    /\ tasks[b].pc = "mkdir"
    /\ IF dir_exists
       THEN /\ tasks' = [tasks EXCEPT ![b].pc = "raised", ![b].raised = "FileExistsError"]
            /\ UNCHANGED dir_exists
       ELSE /\ tasks' = [tasks EXCEPT ![b].pc = "write"]
            /\ dir_exists' = TRUE
    /\ UNCHANGED written
    /\ TaskFrame

\* calc_DLI, lines 97-102: to_csv of the building's file
TaskToCsv(b) ==
    /\ tasks[b].pc = "write"
    /\ written' = written \cup {b}
    /\ tasks' = [tasks EXCEPT ![b].pc = "returned", ![b].log = <<"done">>]
    /\ UNCHANGED dir_exists
    /\ TaskFrame

NextParallel ==
    \E b \in 1..NumBuildings :
        \/ TaskCompute(b)
        \/ TaskCheckDir(b)
        \/ TaskMakeDir(b)
        \/ TaskToCsv(b)

SpecParallel == InitParallel /\ [][NextParallel]_vars

\* the call of calc_DLI for building b has ended
TaskEnded(b) == tasks[b].pc \in {"returned", "raised"}

\* calc_DLI for the building of task t, run alone, raises
AloneRaises(t) ==
    /\ HasPotential(t.sensors_metadata_clean)
    /\ \/ FloorNumberRaises(t.sensors_metadata_clean)
       \/ WallTypeRaises(t.sensors_metadata_clean, t.n_floor)

\* C12: in every interleaving of the buildings' tasks, a task that has ended
\* has ended as it does when its building is run alone: it has raised only if
\* it raises alone, and never because the directory exists; and when it has
\* a sensor left and does not raise alone, its file has been written.
C12_TasksIndependent ==
    tasks # <<>> =>
        \A b \in 1..NumBuildings :
           TaskEnded(b) =>
              /\ tasks[b].raised # "FileExistsError"
              /\ (tasks[b].pc = "raised") = AloneRaises(tasks[b])
              /\ (b \in written) =
                    (HasPotential(tasks[b].sensors_metadata_clean) /\ ~AloneRaises(tasks[b]))

====
